---- MODULE Spec2Model ----
(***************************************************************************)
(* Model of the two core pieces of the pitchbook front end:                *)
(*   - CosmosDBService (services/cosmosdb): remote backend with a          *)
(*     localStorage fallback, and the AgentWorkflow replay that drives it; *)
(*   - parseAnalystDataFile (utils/dataParser.js): the section extractor.  *)
(* JavaScript objects are modelled as functions from field names to        *)
(* values; a missing field and the value undefined are both Absent.        *)
(***************************************************************************)
EXTENDS Integers, Sequences, FiniteSets, TLC

VARIABLES
    localStorage,   \* the item 'pitchbook_workflows': [has, items], items the stored array
    storageFull,    \* TRUE when localStorage.setItem throws QuotaExceededError
    last,           \* the service call that completed last, with what it returned
    txtContent,     \* the lines of /pitchbook_final_output.txt
    cachedData,     \* dataParser's module variable: [has, sections]
    parsePc,        \* where the parseAnalystDataFile call stands
    parseResult,    \* what the call resolved with: [has, sections]
    calls,          \* parseAnalystDataFile calls that overlap: one entry per call
    isRunning,      \* AgentWorkflow state: a replay is running
    messages,       \* AgentWorkflow state: the displayed messages
    runs,           \* one entry per startWorkflow call: its closure and where it stands
    mockData,       \* the messages of /workflow.json
    detail,         \* WorkflowDetail: the last fetchWorkflowDetail and what it showed
    workflowList,   \* WorkflowList: the last fetchWorkflows and what it showed
    inFlight        \* the service calls whose remote request has not settled yet, a set

storeVars == <<localStorage, storageFull, last>>
parseVars == <<txtContent, cachedData, parsePc, parseResult, calls>>
replayVars == <<isRunning, messages, runs, mockData>>
viewVars == <<detail, workflowList>>
callVars == <<inFlight>>
vars == <<localStorage, storageFull, last, txtContent, cachedData, parsePc, parseResult, calls,
          isRunning, messages, runs, mockData, detail, workflowList, inFlight>>

----------------------------------------------------------------------------
(* Bounds of the exploration *)

MaxRecords == 2
MaxMsgs == 2
MaxSegments == 2
MaxRuns == 2
MaxMock == 2
MaxCalls == 4
MaxInFlight == 2

----------------------------------------------------------------------------
(* JavaScript values *)

Absent == "absent"
Now == "now"

Get(obj, k) == IF k \in DOMAIN obj THEN obj[k] ELSE Absent

SetField(obj, k, v) ==
    [x \in DOMAIN obj \cup {k} |-> IF x = k THEN v ELSE obj[x]]

\* { ...a, ...b }: the fields of b win
Spread(a, b) ==
    [x \in DOMAIN a \cup DOMAIN b |-> IF x \in DOMAIN b THEN b[x] ELSE a[x]]

\* !v for the string values that occur: undefined and the empty string are falsy
Falsy(v) == v = Absent \/ v = ""

\* JSON.parse(JSON.stringify(obj)) of one object: fields holding undefined are
\* dropped (the messages field holds an array whenever it is present)
JsonObject(obj) ==
    [x \in {k \in DOMAIN obj : k = "messages" \/ obj[k] # Absent} |-> obj[x]]

RECURSIVE JsonMessages(_)
JsonMessages(ms) ==
    IF ms = <<>> THEN <<>> ELSE <<JsonObject(Head(ms))>> \o JsonMessages(Tail(ms))

JsonRecord(w) ==
    JsonObject(IF "messages" \in DOMAIN w
               THEN SetField(w, "messages", JsonMessages(w["messages"]))
               ELSE w)

\* JSON.parse(JSON.stringify(workflows)) of the stored array
RECURSIVE JsonRoundTrip(_)
JsonRoundTrip(workflows) ==
    IF workflows = <<>> THEN <<>>
    ELSE <<JsonRecord(Head(workflows))>> \o JsonRoundTrip(Tail(workflows))

----------------------------------------------------------------------------
(* localStorage *)

EmptyStorage == [has |-> FALSE, items |-> <<>>, corrupt |-> FALSE]

\* the item holding text that JSON.parse rejects
CorruptStorage == [has |-> TRUE, items |-> <<>>, corrupt |-> TRUE]

\* localStorage.setItem('pitchbook_workflows', JSON.stringify(workflows)):
\* throws when the quota is exceeded, and then stores nothing
\* setItem that empties the item when the quota is exceeded
SetItem_ClearsOnQuota(ls, full, workflows) ==
    IF full
    THEN [threw |-> TRUE, ls |-> EmptyStorage]
    ELSE [threw |-> FALSE,
          ls |-> [has |-> TRUE, items |-> JsonRoundTrip(workflows), corrupt |-> FALSE]]

SetItem(ls, full, workflows) ==
    IF full
    THEN [threw |-> TRUE, ls |-> ls]
    ELSE [threw |-> FALSE,
          ls |-> [has |-> TRUE, items |-> JsonRoundTrip(workflows), corrupt |-> FALSE]]

\* JSON.parse(data) of the stored text: [threw, value]
ParseItem(ls) ==
    IF ls.corrupt THEN [threw |-> TRUE, value |-> <<>>]
    ELSE [threw |-> FALSE, value |-> ls.items]

\* data ? JSON.parse(data) : [], and [] from the catch when the parse throws
GetAllFromLocalStorage(ls) ==
    IF ~ls.has THEN <<>>
    ELSE IF ParseItem(ls).threw THEN <<>> ELSE ParseItem(ls).value

\* workflows.findIndex(w => w.id === workflowId), 0 for -1
FindIndex(workflows, workflowId) ==
    IF \E i \in 1..Len(workflows) : Get(workflows[i], "id") = workflowId
    THEN CHOOSE i \in 1..Len(workflows) :
            /\ Get(workflows[i], "id") = workflowId
            /\ \A j \in 1..(i - 1) : Get(workflows[j], "id") # workflowId
    ELSE 0

Found(ls, workflowId) == FindIndex(GetAllFromLocalStorage(ls), workflowId) # 0

\* workflows.find(w => w.id === workflowId); meaningful when Found
GetFromLocalStorage(ls, workflowId) ==
    GetAllFromLocalStorage(ls)[FindIndex(GetAllFromLocalStorage(ls), workflowId)]

SaveDocument(workflowId, workflow) ==
    Spread([id |-> workflowId, workflowId |-> workflowId, createdAt |-> Now,
            status |-> "in_progress", messages |-> <<>>],
           workflow)

\* returns the generated id, or undefined when the write threw
SaveToLocalStorage(ls, full, workflow, workflowId) ==
    LET workflows == Append(GetAllFromLocalStorage(ls), SaveDocument(workflowId, workflow))
        w == SetItem(ls, full, workflows)
    IN  [ls |-> w.ls, ret |-> IF w.threw THEN Absent ELSE workflowId]

\* the update that takes the record out and pushes the new one at the end
UpdateInLocalStorage_MoveToEnd(ls, full, workflowId, updatedWorkflow) ==
    LET workflows == GetAllFromLocalStorage(ls)
        index == FindIndex(workflows, workflowId)
    IN  IF index # 0
        THEN SetItem(ls, full,
                     Append(SubSeq(workflows, 1, index - 1)
                            \o SubSeq(workflows, index + 1, Len(workflows)),
                            updatedWorkflow)).ls
        ELSE ls

UpdateInLocalStorage(ls, full, workflowId, updatedWorkflow) ==
    LET workflows == GetAllFromLocalStorage(ls)
        index == FindIndex(workflows, workflowId)
    IN  IF index # 0
        THEN SetItem(ls, full, [workflows EXCEPT ![index] = updatedWorkflow]).ls
        ELSE ls

----------------------------------------------------------------------------
(* CosmosDBService: each operation awaits the remote call and then, when the *)
(* call threw or answered success=false, runs its localStorage fallback in   *)
(* one synchronous piece. remote is the outcome of the awaited call.         *)

RemoteOutcomes == {"ok", "fail", "throw"}

\* the random part of generateWorkflowId: two draws may collide
GeneratedIds == {"workflow-1", "workflow-2"}

\* what the backend answers in result.workflowId
RemoteIds == {"remote-1"}

\* createWorkflow(workflowData)
CreateWorkflow(ls, full, remote, remoteId, workflowData, generated) ==
    IF remote = "ok"
    THEN [ls |-> ls, success |-> TRUE, workflowId |-> remoteId, rejected |-> FALSE]
    ELSE LET saved == SaveToLocalStorage(ls, full, workflowData, generated)
         IN  [ls |-> saved.ls, success |-> TRUE, workflowId |-> saved.ret,
              rejected |-> FALSE]

\* the object pushed by addMessage
StampedMessage(message) ==
    SetField(message, "timestamp",
             IF Falsy(Get(message, "timestamp")) THEN Now ELSE message["timestamp"])

\* lines 386 and 423: the error of a call that found no record anywhere
NotFound == "Workflow not found"

\* addMessage that overwrites the message list with the new message
AddMessage_Overwrite(ls, full, remote, workflowId, message) ==
    IF remote = "ok"
    THEN [ls |-> ls, success |-> TRUE, error |-> Absent, rejected |-> FALSE]
    ELSE IF Found(ls, workflowId)
         THEN [ls |-> UpdateInLocalStorage(ls, full, workflowId,
                          SetField(GetFromLocalStorage(ls, workflowId), "messages",
                                   <<StampedMessage(message)>>)),
               success |-> TRUE, error |-> Absent, rejected |-> FALSE]
         ELSE [ls |-> ls, success |-> FALSE, error |-> NotFound, rejected |-> FALSE]

\* addMessage that puts the new message in front of the list
AddMessage_Unshift(ls, full, remote, workflowId, message) ==
    IF remote = "ok"
    THEN [ls |-> ls, success |-> TRUE, error |-> Absent, rejected |-> FALSE]
    ELSE IF Found(ls, workflowId)
         THEN LET workflow == GetFromLocalStorage(ls, workflowId)
                  list == IF "messages" \in DOMAIN workflow
                          THEN workflow["messages"] ELSE <<>>
                  updated == SetField(workflow, "messages",
                                      <<StampedMessage(message)>> \o list)
              IN  [ls |-> UpdateInLocalStorage(ls, full, workflowId, updated),
                   success |-> TRUE, error |-> Absent, rejected |-> FALSE]
         ELSE [ls |-> ls, success |-> FALSE, error |-> NotFound, rejected |-> FALSE]

\* addMessage(workflowId, message)
AddMessage(ls, full, remote, workflowId, message) ==
    IF remote = "ok"
    THEN [ls |-> ls, success |-> TRUE, error |-> Absent, rejected |-> FALSE]
    ELSE IF Found(ls, workflowId)
         THEN LET workflow == GetFromLocalStorage(ls, workflowId)
                  list == IF "messages" \in DOMAIN workflow
                          THEN workflow["messages"] ELSE <<>>
                  updated == SetField(workflow, "messages",
                                      Append(list, StampedMessage(message)))
              IN  [ls |-> UpdateInLocalStorage(ls, full, workflowId, updated),
                   success |-> TRUE, error |-> Absent, rejected |-> FALSE]
         ELSE [ls |-> ls, success |-> FALSE, error |-> NotFound, rejected |-> FALSE]

\* updateWorkflowStatus reporting success without looking for the record
UpdateWorkflowStatus_AlwaysOk(ls, full, remote, workflowId, status) ==
    IF remote = "ok" \/ ~Found(ls, workflowId)
    THEN [ls |-> ls, success |-> TRUE, error |-> Absent, rejected |-> FALSE]
    ELSE LET workflow == GetFromLocalStorage(ls, workflowId)
             updated == SetField(SetField(workflow, "status", status),
                                 "completedAt", Now)
         IN  [ls |-> UpdateInLocalStorage(ls, full, workflowId, updated),
              success |-> TRUE, error |-> Absent, rejected |-> FALSE]

\* updateWorkflowStatus(workflowId, status)
UpdateWorkflowStatus(ls, full, remote, workflowId, status) ==
    IF remote = "ok"
    THEN [ls |-> ls, success |-> TRUE, error |-> Absent, rejected |-> FALSE]
    ELSE IF Found(ls, workflowId)
         THEN LET workflow == GetFromLocalStorage(ls, workflowId)
                  updated == SetField(SetField(workflow, "status", status),
                                      "completedAt", Now)
              IN  [ls |-> UpdateInLocalStorage(ls, full, workflowId, updated),
                   success |-> TRUE, error |-> Absent, rejected |-> FALSE]
         ELSE [ls |-> ls, success |-> FALSE, error |-> NotFound, rejected |-> FALSE]

\* getWorkflow(workflowId): [found, workflow]; remoteWorkflow is result.workflow
GetWorkflow(ls, remote, remoteWorkflow, workflowId) ==
    IF remote = "ok"
    THEN [found |-> TRUE, workflow |-> remoteWorkflow, rejected |-> FALSE]
    ELSE IF Found(ls, workflowId)
         THEN [found |-> TRUE, workflow |-> GetFromLocalStorage(ls, workflowId),
               rejected |-> FALSE]
         ELSE [found |-> FALSE, workflow |-> <<>>, rejected |-> FALSE]

\* getAllWorkflows with the error of a thrown fetch passed on to the caller
GetAllWorkflows_Rethrow(ls, remote, remoteWorkflows) ==
    IF remote = "ok"
    THEN [workflows |-> remoteWorkflows, rejected |-> FALSE]
    ELSE IF remote = "throw"
         THEN [workflows |-> <<>>, rejected |-> TRUE]
         ELSE [workflows |-> GetAllFromLocalStorage(ls), rejected |-> FALSE]

\* getAllWorkflows(); remoteWorkflows is result.workflows
GetAllWorkflows(ls, remote, remoteWorkflows) ==
    IF remote = "ok"
    THEN [workflows |-> remoteWorkflows, rejected |-> FALSE]
    ELSE [workflows |-> GetAllFromLocalStorage(ls), rejected |-> FALSE]

----------------------------------------------------------------------------
(* dataParser.js. The transcript is a sequence of lines; only what the two  *)
(* regular expressions, indexOf('{'), includes and JSON.parse can tell      *)
(* apart is kept of a line:                                                 *)
(*   tag       a line holding [FinancialDocumentsAgent]                     *)
(*   fj        the line ```json                                             *)
(*   f         the line ```                                                 *)
(*   fx        a fence with another language tag, such as ```text           *)
(*   prose     text without brace or backticks                              *)
(*   sentinel  prose holding OUTPUT STRUCTURE                               *)
(*   broken    text with a brace that is no JSON                            *)
(*   json      one JSON object: its section field, a payload that tells     *)
(*             objects apart, and whether a string in it holds the sentinel *)
(* The section field is a JavaScript value: a number (kept in tenths), a    *)
(* string (its characters) or undefined.                                    *)

Digits == <<"0", "1", "2", "3", "4", "5", "6", "7", "8", "9">>

NumV(tenths) == [num |-> tenths]
StrV(chars) == [str |-> chars]
NoV == [undefined |-> TRUE]

IsNum(v) == "num" \in DOMAIN v
IsStr(v) == "str" \in DOMAIN v

Line(kind) == [k |-> kind]
Json(section, payload, sentinel) ==
    [k |-> "json", sec |-> section, id |-> payload, sent |-> sentinel]

IsDigit(c) == \E d \in 1..10 : Digits[d] = c
DigitOf(c) == (CHOOSE d \in 1..10 : Digits[d] = c) - 1

RECURSIVE DigitsValue(_)
DigitsValue(chars) ==
    IF chars = <<>> THEN 0
    ELSE 10 * DigitsValue(SubSeq(chars, 1, Len(chars) - 1)) + DigitOf(chars[Len(chars)])

\* Number(string) for strings of digits with at most one decimal: [nan, n]
StringToNumber(chars) ==
    LET dots == {i \in 1..Len(chars) : chars[i] = "."}
        dot == IF dots = {} THEN Len(chars) + 1 ELSE CHOOSE i \in dots : TRUE
        whole == SubSeq(chars, 1, dot - 1)
        frac == SubSeq(chars, dot + 1, Len(chars))
    IN  IF /\ Cardinality(dots) <= 1
           /\ Len(frac) <= 1
           /\ \A i \in 1..Len(chars) : i \in dots \/ IsDigit(chars[i])
           /\ chars # <<".">>
        THEN [nan |-> FALSE, n |-> 10 * DigitsValue(whole) + DigitsValue(frac)]
        ELSE [nan |-> TRUE, n |-> 0]

\* the operand of >= and <= converted to a number
ToNumber(v) ==
    IF IsNum(v) THEN [nan |-> FALSE, n |-> v.num]
    ELSE IF IsStr(v) THEN StringToNumber(v.str)
    ELSE [nan |-> TRUE, n |-> 0]

RECURSIVE NatToChars(_)
NatToChars(i) ==
    IF i < 10 THEN <<Digits[i + 1]>>
    ELSE NatToChars(i \div 10) \o <<Digits[(i % 10) + 1]>>

\* String(number) of a non-negative number kept in tenths
NumberToString(tenths) ==
    IF tenths % 10 = 0 THEN NatToChars(tenths \div 10)
    ELSE NatToChars(tenths \div 10) \o <<".", Digits[(tenths % 10) + 1]>>

\* `section${sectionNum}`
SectionKey(v) ==
    <<"section">> \o (IF IsNum(v) THEN NumberToString(v.num)
                      ELSE IF IsStr(v) THEN v.str
                      ELSE <<"undefined">>)

Slot(i) == <<"section", Digits[i + 1]>>
SlotKeys == {Slot(i) : i \in 1..8}

NullValue == Line("null")

\* const sections = { section1: null, ..., section8: null }
EmptySections == [key \in SlotKeys |-> NullValue]

\* sectionNum >= 2 && sectionNum <= 8
InGenericRange(v) ==
    LET x == ToNumber(v) IN ~x.nan /\ x.n >= 20 /\ x.n <= 80

\* parsed.section === 1
IsSectionOne(v) == IsNum(v) /\ v.num = 10

FenceStarts == {"f", "fj", "fx"}
StartsFence(line) == line.k \in FenceStarts

\* the first index >= from whose line satisfies the test, 0 when there is none
\* (kinds: the line kinds the pattern accepts at that place)
FirstFrom(lines, from, kinds) ==
    LET hits == {i \in from..Len(lines) : lines[i].k \in kinds}
    IN  IF hits = {} THEN 0 ELSE CHOOSE i \in hits : \A j \in hits : i <= j

Tags == {"tag"}
JsonFences == {"fj"}
OpenFences == {"f", "fj"}
IsOpenFence(line) == line.k \in OpenFences

\* the close of a fence opened on line open: \n``` needs a line after the
\* opening one's newline, so the line right after the opening never closes it
CloseOf(lines, open) == FirstFrom(lines, open + 2, FenceStarts)

\* JSON.parse of the text of these lines: [ok, value]
JsonParse(body) ==
    IF Len(body) = 1 /\ body[1].k = "json"
    THEN [ok |-> TRUE, value |-> body[1]]
    ELSE [ok |-> FALSE, value |-> NullValue]

\* jsonText.includes('OUTPUT STRUCTURE')
IncludesSentinel(body) ==
    \E i \in 1..Len(body) :
        body[i].k = "sentinel" \/ (body[i].k = "json" /\ body[i].sent)

\* jsonText.indexOf('{'): the line kinds that hold a brace
Braced == {"json", "broken"}

\* txtContent.match(section1Pattern): [matched, body]
Section1Match(lines) ==
    LET tag == FirstFrom(lines, 1, Tags)
        open == IF tag = 0 THEN 0 ELSE FirstFrom(lines, tag + 1, JsonFences)
        close == IF open = 0 THEN 0 ELSE CloseOf(lines, open)
    IN  IF close = 0
        THEN [matched |-> FALSE, body |-> <<>>]
        ELSE [matched |-> TRUE, body |-> SubSeq(lines, open + 1, close - 1)]

\* the section 1 step without the validator-template test
ExtractSection1_NoSentinelTest(lines, sections) ==
    LET m == Section1Match(lines)
        parsed == JsonParse(m.body)
    IN  IF m.matched /\ parsed.ok /\ IsSectionOne(parsed.value.sec)
        THEN [sections EXCEPT ![Slot(1)] = parsed.value]
        ELSE sections

\* the section 1 step storing the candidate whatever its section field says
ExtractSection1_NoSectionTest(lines, sections) ==
    LET m == Section1Match(lines)
        parsed == JsonParse(m.body)
    IN  IF m.matched /\ ~IncludesSentinel(m.body) /\ parsed.ok
        THEN [sections EXCEPT ![Slot(1)] = parsed.value]
        ELSE sections

\* lines 28-46: the sections object after the section 1 step
ExtractSection1(lines, sections) ==
    LET m == Section1Match(lines)
        parsed == JsonParse(m.body)
    IN  IF /\ m.matched
           /\ ~IncludesSentinel(m.body)
           /\ parsed.ok
           /\ IsSectionOne(parsed.value.sec)
        THEN [sections EXCEPT ![Slot(1)] = parsed.value]
        ELSE sections

\* [...txtContent.matchAll(...)]: the captured bodies from line `from` on
RECURSIVE AllJsonBlocks(_, _)
AllJsonBlocks(lines, from) ==
    LET open == FirstFrom(lines, from, OpenFences)
        close == IF open = 0 THEN 0 ELSE CloseOf(lines, open)
    IN  IF close = 0 THEN <<>>
        ELSE <<SubSeq(lines, open + 1, close - 1)>> \o AllJsonBlocks(lines, close + 1)

\* lines 58-64: [ok, value] of one captured body
ParseBlock(body) ==
    LET jsonStart == FirstFrom(body, 1, Braced)
    IN  IF jsonStart = 0
        THEN [ok |-> FALSE, value |-> NullValue]
        ELSE JsonParse(SubSeq(body, jsonStart, Len(body)))

\* !sections[sectionKey]
Unfilled(sections, key) == key \notin DOMAIN sections \/ sections[key].k = "null"

\* lines 65-73: one turn of the loop
StoreBlock(sections, body) ==
    LET parsed == ParseBlock(body)
    IN  IF /\ parsed.ok
           /\ InGenericRange(parsed.value.sec)
           /\ Unfilled(sections, SectionKey(parsed.value.sec))
        THEN [x \in DOMAIN sections \cup {SectionKey(parsed.value.sec)} |->
                 IF x = SectionKey(parsed.value.sec) THEN parsed.value
                 ELSE sections[x]]
        ELSE sections

\* the loop leaving at the first block that does not parse
RECURSIVE ExtractBlocks_StopAtBad(_, _)
ExtractBlocks_StopAtBad(blocks, sections) ==
    IF blocks = <<>> \/ ~ParseBlock(Head(blocks)).ok THEN sections
    ELSE ExtractBlocks_StopAtBad(Tail(blocks), StoreBlock(sections, Head(blocks)))

RECURSIVE ExtractBlocks(_, _)
ExtractBlocks(blocks, sections) ==
    IF blocks = <<>> THEN sections
    ELSE ExtractBlocks(Tail(blocks), StoreBlock(sections, Head(blocks)))

\* lines 14-77: the sections object built from the fetched text
Extract(lines) ==
    ExtractBlocks(AllJsonBlocks(lines, 1), ExtractSection1(lines, EmptySections))

NoData == [has |-> FALSE, sections |-> <<>>]

\* lines 29 and 41: JSON.parse of the section 1 candidate sits in try/catch
Section1Guarded == TRUE
\* lines 63 and 74: JSON.parse of every scanned block sits in try/catch
BlockGuarded == TRUE

\* the extraction with its try/catch blocks taken away
ExtractThrows_NoCatch(lines) ==
    LET m == Section1Match(lines)
        blocks == AllJsonBlocks(lines, 1)
    IN  IF m.matched /\ ~IncludesSentinel(m.body) /\ ~JsonParse(m.body).ok
        THEN TRUE
        ELSE \E i \in 1..Len(blocks) :
                 FirstFrom(blocks[i], 1, Braced) # 0 /\ ~ParseBlock(blocks[i]).ok

\* lines 14-77: an error of the extraction reaches the outer catch (line 93)
ExtractThrows(lines) ==
    LET m == Section1Match(lines)
        blocks == AllJsonBlocks(lines, 1)
    IN  IF /\ ~Section1Guarded
           /\ m.matched /\ ~IncludesSentinel(m.body) /\ ~JsonParse(m.body).ok
        THEN TRUE
        ELSE /\ ~BlockGuarded
             /\ \E i \in 1..Len(blocks) :
                    FirstFrom(blocks[i], 1, Braced) # 0 /\ ~ParseBlock(blocks[i]).ok

----------------------------------------------------------------------------
(* Inputs of the service calls *)

EmptyObject == [x \in {} |-> Absent]

\* the status that startWorkflow passes to createWorkflow (its companies field
\* is carried along unread and left out)
StartFields == [status |-> "failed"]

SeedMessage == [type |-> "end", message |-> "b", timestamp |-> "t0"]

WorkflowDatas ==
    {EmptyObject, StartFields, [id |-> "workflow-2"], [messages |-> <<SeedMessage>>]}

\* the replay passes timestamp and data also when the source message has none
Messages ==
    {[type |-> "agent_response", message |-> "a", timestamp |-> Absent, data |-> Absent],
     [type |-> "end", message |-> "b", timestamp |-> "t0"]}

Statuses == {"in_progress", "completed"}

NoCall ==
    [op |-> "none", fellBack |-> FALSE, id |-> Absent, success |-> FALSE,
     message |-> EmptyObject, status |-> Absent, error |-> Absent, rejected |-> FALSE,
     returned |-> <<>>]

MessagesOf(w) == IF "messages" \in DOMAIN w THEN w["messages"] ELSE <<>>

RECURSIVE StoredMessages(_)
StoredMessages(workflows) ==
    IF workflows = <<>> THEN 0
    ELSE Len(MessagesOf(Head(workflows))) + StoredMessages(Tail(workflows))

\* the guards that keep the store within the bounds
RoomForRecord ==
    /\ Len(GetAllFromLocalStorage(localStorage)) < MaxRecords
    /\ StoredMessages(GetAllFromLocalStorage(localStorage)) < MaxMsgs

RoomForMessage == StoredMessages(GetAllFromLocalStorage(localStorage)) < MaxMsgs

----------------------------------------------------------------------------
(* The service called directly: every call completes with some outcome of  *)
(* its remote request.                                                     *)

DoCreateWorkflow ==
    \E remote \in RemoteOutcomes, workflowData \in WorkflowDatas,
       generated \in GeneratedIds, remoteId \in RemoteIds :
        /\ RoomForRecord
        /\ LET r == CreateWorkflow(localStorage, storageFull, remote, remoteId,
                                   workflowData, generated)
           IN  /\ localStorage' = r.ls
               /\ last' = [NoCall EXCEPT !.op = "createWorkflow",
                                         !.fellBack = (remote # "ok"),
                                         !.id = r.workflowId, !.success = r.success,
                                         !.rejected = r.rejected]
        /\ UNCHANGED <<storageFull, parseVars, replayVars, viewVars, callVars>>

DoAddMessage ==
    \E remote \in RemoteOutcomes, workflowId \in GeneratedIds, message \in Messages :
        /\ RoomForMessage
        /\ LET r == AddMessage(localStorage, storageFull, remote, workflowId, message)
           IN  /\ localStorage' = r.ls
               /\ last' = [NoCall EXCEPT !.op = "addMessage",
                                         !.fellBack = (remote # "ok"),
                                         !.id = workflowId, !.success = r.success,
                                         !.message = message, !.error = r.error,
                                         !.rejected = r.rejected]
        /\ UNCHANGED <<storageFull, parseVars, replayVars, viewVars, callVars>>

DoUpdateWorkflowStatus ==
    \E remote \in RemoteOutcomes, workflowId \in GeneratedIds, status \in Statuses :
        /\ LET r == UpdateWorkflowStatus(localStorage, storageFull, remote,
                                         workflowId, status)
           IN  /\ localStorage' = r.ls
               /\ last' = [NoCall EXCEPT !.op = "updateWorkflowStatus",
                                         !.fellBack = (remote # "ok"),
                                         !.id = workflowId, !.success = r.success,
                                         !.status = status,
                                         !.error = r.error, !.rejected = r.rejected]
        /\ UNCHANGED <<storageFull, parseVars, replayVars, viewVars, callVars>>

\* the browser's quota for the origin runs out: from now on setItem throws
QuotaExceeded ==
    /\ ~storageFull
    /\ storageFull' = TRUE
    /\ UNCHANGED <<localStorage, last, parseVars, replayVars, viewVars, callVars>>

InitStore ==
    /\ localStorage = EmptyStorage
    /\ storageFull = FALSE
    /\ last = NoCall

InitParser ==
    /\ txtContent = <<>>
    /\ cachedData = NoData
    /\ parsePc = "idle"
    /\ parseResult = NoData
    /\ calls = <<>>

InitReplay ==
    /\ isRunning = FALSE
    /\ messages = <<>>
    /\ runs = <<>>
    /\ mockData = <<>>

\* WorkflowDetail before its first fetch
NoDetail ==
    [id |-> Absent, remote |-> "none", demo |-> "none", demoRecord |-> EmptyObject,
     shows |-> FALSE, workflow |-> EmptyObject, error |-> Absent]

NoWorkflows == "No workflows found"

NoList ==
    [fetched |-> FALSE, remote |-> "none", remoteWorkflows |-> <<>>, demo |-> "none",
     demoRecord |-> EmptyObject, workflows |-> <<>>, error |-> Absent]

InitView ==
    /\ detail = NoDetail
    /\ workflowList = NoList
    /\ inFlight = {}

Init == InitStore /\ InitParser /\ InitReplay /\ InitView

Next ==
    \/ DoCreateWorkflow
    \/ DoAddMessage
    \/ DoUpdateWorkflowStatus

\* localStorage works, as the design assumes
Spec == Init /\ [][Next]_vars

NextFault == Next \/ QuotaExceeded

\* localStorage may stop accepting writes
SpecFault == Init /\ [][NextFault]_vars

----------------------------------------------------------------------------
(* The transcripts explored: up to MaxSegments pieces, each a single line   *)
(* or a fenced block in one of the shapes the transcript shows.             *)

One == NumV(10)
Three == NumV(30)

JsonLines ==
    {Json(One, "a", FALSE), Json(One, "a", TRUE),
     Json(NumV(20), "a", FALSE), Json(Three, "a", FALSE), Json(Three, "b", FALSE),
     Json(NumV(80), "a", FALSE), Json(NumV(90), "a", FALSE),
     Json(NumV(25), "a", FALSE),
     Json(StrV(<<"3">>), "c", FALSE), Json(StrV(<<"0", "3">>), "c", FALSE),
     Json(NoV, "a", FALSE)}

BodyLines == JsonLines \cup {Line("prose"), Line("sentinel"), Line("broken")}

Segments ==
    \* single lines, fences that are not paired among them
    {<<Line(k)>> : k \in {"tag", "fj", "f", "fx", "prose", "broken"}}
    \cup {<<Json(Three, "b", FALSE)>>}
    \* a fenced block, with and without the language tag
    \cup {<<Line(open), body, Line("f")>> : open \in {"f", "fj"}, body \in BodyLines}
    \* header text before the JSON body, text after it
    \cup {<<Line(open), Line(header), body, Line("f")>> :
             open \in {"f", "fj"}, header \in {"prose", "sentinel"},
             body \in {Json(One, "a", FALSE), Json(Three, "a", FALSE)}}
    \cup {<<Line("fj"), Json(Three, "a", FALSE), Line("prose"), Line("f")>>}
    \* a block that follows the agent tag
    \cup {<<Line("tag"), Line("prose"), Line(open), body, Line("f")>> :
             open \in {"f", "fj"},
             body \in {Json(One, "a", FALSE), Json(One, "a", TRUE),
                       Json(Three, "a", FALSE), Line("broken")}}

RECURSIVE Transcripts(_)
Transcripts(n) ==
    IF n = 0 THEN {<<>>}
    ELSE LET shorter == Transcripts(n - 1)
         IN  shorter \cup {t \o seg : t \in shorter, seg \in Segments}

----------------------------------------------------------------------------
(* parseAnalystDataFile, called again and again on one transcript *)

\* line 6: the call returns the cache, or goes on to fetch
ParseCall ==
    /\ parsePc \in {"idle", "resolved", "rejected"}
    /\ IF cachedData.has
       THEN parsePc' = "resolved" /\ parseResult' = cachedData
       ELSE parsePc' = "fetching" /\ parseResult' = NoData
    /\ UNCHANGED <<txtContent, cachedData, calls, storeVars, replayVars, viewVars, callVars>>

\* lines 9-10 and 93-96: fetch throws or answers not ok, the call rejects
FetchFails ==
    /\ parsePc = "fetching"
    /\ parsePc' = "rejected"
    /\ UNCHANGED <<txtContent, cachedData, parseResult, calls, storeVars, replayVars, viewVars, callVars>>

\* lines 12-96: the text arrives, is parsed, cached and returned; an error
\* that leaves the extraction is rethrown by the outer catch
FetchSucceeds ==
    /\ parsePc = "fetching"
    /\ IF ExtractThrows(txtContent)
       THEN /\ parsePc' = "rejected"
            /\ UNCHANGED <<cachedData, parseResult>>
       ELSE /\ cachedData' = [has |-> TRUE, sections |-> Extract(txtContent)]
            /\ parseResult' = cachedData'
            /\ parsePc' = "resolved"
    /\ UNCHANGED <<txtContent, calls, storeVars, replayVars, viewVars, callVars>>

InitParse ==
    /\ InitStore
    /\ InitView
    /\ InitReplay
    /\ txtContent \in Transcripts(MaxSegments)
    /\ cachedData = NoData
    /\ parsePc = "idle"
    /\ parseResult = NoData
    /\ calls = <<>>

NextParse == ParseCall \/ FetchFails \/ FetchSucceeds

SpecParse == InitParse /\ [][NextParse]_vars

----------------------------------------------------------------------------
(* parseAnalystDataFile and getSectionData called by several components at *)
(* once, while the file behind the URL may be replaced                      *)

\* the files the URL serves over time
Editions ==
    {<<>>,
     <<Line("f"), Json(Three, "a", FALSE), Line("f")>>,
     <<Line("f"), Json(Three, "b", FALSE), Line("f")>>,
     <<Line("fj"), Line("broken"), Line("f")>>}

\* the callers: 0 is parseAnalystDataFile itself, n is getSectionData(n)
Callers == {0, 3}

\* lines 99-103: what the caller gets from the Section Document
Returned(call) ==
    IF call.section = 0 THEN call.allData
    ELSE IF Slot(call.section) \in DOMAIN call.allData.sections
         THEN call.allData.sections[Slot(call.section)]
         ELSE NoV

\* line 6: a call starts; it returns the cache or goes on to fetch
CallStarts ==
    \E section \in Callers :
        /\ Len(calls) < MaxCalls
        /\ calls' = Append(calls,
              IF cachedData.has
              THEN [pc |-> "resolved", section |-> section, allData |-> cachedData,
                    fetch |-> "none"]
              ELSE [pc |-> "fetching", section |-> section, allData |-> NoData,
                    fetch |-> "pending"])
        /\ UNCHANGED <<txtContent, cachedData, parsePc, parseResult, storeVars,
                       replayVars, viewVars, callVars>>

\* lines 9-10 and 93-96: the fetch of one call throws or answers not ok
CallFetchFails ==
    \E c \in 1..Len(calls) :
        /\ calls[c].pc = "fetching"
        /\ calls' = [calls EXCEPT ![c].pc = "rejected", ![c].fetch = "failed"]
        /\ UNCHANGED <<txtContent, cachedData, parsePc, parseResult, storeVars,
                       replayVars, viewVars, callVars>>

\* the cache kept when it is already set
AssignCache_KeepFirst(cache, sections) ==
    IF cache.has THEN cache ELSE [has |-> TRUE, sections |-> sections]

\* line 79: cachedData = { sections }
AssignCache(cache, sections) == [has |-> TRUE, sections |-> sections]

\* lines 12-96: the text of one call arrives, is parsed, cached and returned
CallFetchSucceeds ==
    \E c \in 1..Len(calls) :
        /\ calls[c].pc = "fetching"
        /\ IF ExtractThrows(txtContent)
           THEN /\ calls' = [calls EXCEPT ![c].pc = "rejected", ![c].fetch = "ok"]
                /\ UNCHANGED cachedData
           ELSE /\ cachedData' = AssignCache(cachedData, Extract(txtContent))
                /\ calls' = [calls EXCEPT ![c].pc = "resolved", ![c].fetch = "ok",
                                          ![c].allData = cachedData']
        /\ UNCHANGED <<txtContent, parsePc, parseResult, storeVars, replayVars, viewVars, callVars>>

\* /pitchbook_final_output.txt is replaced by a new analysis
TranscriptChanges ==
    /\ txtContent' \in Editions \ {txtContent}
    /\ UNCHANGED <<cachedData, parsePc, parseResult, calls, storeVars, replayVars, viewVars, callVars>>

InitCache ==
    /\ InitStore
    /\ InitView
    /\ InitReplay
    /\ txtContent \in Editions
    /\ cachedData = NoData
    /\ parsePc = "idle"
    /\ parseResult = NoData
    /\ calls = <<>>

NextCache == CallStarts \/ CallFetchFails \/ CallFetchSucceeds \/ TranscriptChanges

SpecCache == InitCache /\ [][NextCache]_vars

----------------------------------------------------------------------------
(* WorkflowDetail: one workflow id resolved through the remote backend, the *)
(* local store and the bundled /workflow.json                               *)

\* the record the backend answers with for an id it knows
RemoteRecord(id) == [id |-> id, status |-> "pending", messages |-> <<>>]

\* /workflow.json as it may be bundled
DemoRecords ==
    {[id |-> "demo-1", workflowId |-> "demo-w"],
     [id |-> "demo-0", workflowId |-> "demo-1"],
     [id |-> "demo-0", workflowId |-> "demo-w"]}

DemoOutcomes == {"ok", "throw"}
DetailIds == {"workflow-1", "demo-1"}

\* the demo record used whatever id was asked for
FetchWorkflowDetail_DemoAsDefault(ls, remote, demo, demoRecord, id) ==
    LET workflow == GetWorkflow(ls, remote, RemoteRecord(id), id)
    IN  IF workflow.found
        THEN [shows |-> TRUE, workflow |-> workflow.workflow, error |-> Absent]
        ELSE IF Found(ls, id)
        THEN [shows |-> TRUE, workflow |-> GetFromLocalStorage(ls, id), error |-> Absent]
        ELSE IF demo = "ok"
        THEN [shows |-> TRUE, workflow |-> demoRecord, error |-> Absent]
        ELSE [shows |-> FALSE, workflow |-> EmptyObject, error |-> NotFound]

\* lines 265-310: what the page shows for id
FetchWorkflowDetail(ls, remote, demo, demoRecord, id) ==
    LET workflow == GetWorkflow(ls, remote, RemoteRecord(id), id)
    IN  IF workflow.found
        THEN [shows |-> TRUE, workflow |-> workflow.workflow, error |-> Absent]
        ELSE IF Found(ls, id)
        THEN [shows |-> TRUE, workflow |-> GetFromLocalStorage(ls, id), error |-> Absent]
        ELSE IF /\ demo = "ok"
                /\ (Get(demoRecord, "id") = id \/ Get(demoRecord, "workflowId") = id)
        THEN [shows |-> TRUE, workflow |-> demoRecord, error |-> Absent]
        ELSE [shows |-> FALSE, workflow |-> EmptyObject, error |-> NotFound]

\* the page is opened for some id
DoFetchWorkflowDetail ==
    \E id \in DetailIds, remote \in RemoteOutcomes, demo \in DemoOutcomes,
       demoRecord \in DemoRecords :
        /\ LET r == FetchWorkflowDetail(localStorage, remote, demo, demoRecord, id)
           IN  detail' = [id |-> id, remote |-> remote, demo |-> demo,
                          demoRecord |-> demoRecord, shows |-> r.shows,
                          workflow |-> r.workflow, error |-> r.error]
        /\ UNCHANGED <<storeVars, parseVars, replayVars, workflowList, callVars>>

NextDetail ==
    \/ DoCreateWorkflow
    \/ DoFetchWorkflowDetail

SpecDetail == Init /\ [][NextDetail]_vars

----------------------------------------------------------------------------
(* The reads of the service, called next to its writes *)

DoGetWorkflow ==
    \E remote \in RemoteOutcomes, workflowId \in GeneratedIds :
        /\ LET r == GetWorkflow(localStorage, remote, RemoteRecord(workflowId), workflowId)
           IN  last' = [NoCall EXCEPT !.op = "getWorkflow",
                                      !.fellBack = (remote # "ok"),
                                      !.id = workflowId, !.success = r.found,
                                      !.rejected = r.rejected,
                                      !.returned = IF r.found THEN <<r.workflow>>
                                                   ELSE <<>>]
        /\ UNCHANGED <<localStorage, storageFull, parseVars, replayVars, viewVars, callVars>>

DoGetAllWorkflows ==
    \E remote \in RemoteOutcomes :
        /\ LET r == GetAllWorkflows(localStorage, remote, <<RemoteRecord("remote-1")>>)
           IN  last' = [NoCall EXCEPT !.op = "getAllWorkflows",
                                      !.fellBack = (remote # "ok"),
                                      !.success = TRUE,
                                      !.rejected = r.rejected,
                                      !.returned = r.workflows]
        /\ UNCHANGED <<localStorage, storageFull, parseVars, replayVars, viewVars, callVars>>

NextRead == NextFault \/ DoGetWorkflow \/ DoGetAllWorkflows

SpecRead == Init /\ [][NextRead]_vars

----------------------------------------------------------------------------
(* The local store failing: writes that throw, stored text that does not parse *)

\* the item is overwritten from outside with text that is not JSON
StorageCorrupted ==
    /\ localStorage.has
    /\ ~localStorage.corrupt
    /\ localStorage' = CorruptStorage
    /\ UNCHANGED <<storageFull, last, parseVars, replayVars, viewVars, callVars>>

NextLocal ==
    \/ DoCreateWorkflow
    \/ DoAddMessage
    \/ DoGetWorkflow
    \/ DoGetAllWorkflows
    \/ QuotaExceeded
    \/ StorageCorrupted

SpecLocal == Init /\ [][NextLocal]_vars

----------------------------------------------------------------------------
(* AgentWorkflow: startWorkflow and the replay of /workflow.json. A run is  *)
(* one call of startWorkflow; its pc names the promise or timer it waits on *)

NewRun == [pc |-> "createWorkflow", workflowId |-> Absent, currentIndex |-> 0,
           statusCalls |-> 0, onComplete |-> 0]

\* the message lists the bundled file may hold
SourceMessages ==
    {[type |-> "agent_response", message |-> "a"],
     [type |-> "end", message |-> "b", timestamp |-> "t0"]}

RECURSIVE MockLists(_)
MockLists(n) ==
    IF n = 0 THEN {<<>>}
    ELSE LET shorter == MockLists(n - 1)
         IN  shorter \cup {Append(l, m) : l \in shorter, m \in SourceMessages}

\* lines 584-590: the object handed to addMessage
ReplayMessage(data) ==
    [type |-> data["type"], message |-> data["message"],
     timestamp |-> Get(data, "timestamp"), data |-> Get(data, "data")]

\* lines 600-606 and 634-640: the entry added to the display (run tells the
\* runs apart, the component does not keep it)
Displayed(data, r) == [type |-> data["type"], content |-> data["message"], run |-> r]

EndsStream(data) == data["type"] \in {"end", "complete"}

\* lines 593-692: processNextMessage after its addMessage, up to the next await
AfterAddMessage(run, r, shown, running) ==
    LET data == mockData[run.currentIndex]
    IN  IF EndsStream(data)
        THEN [run |-> IF Falsy(run.workflowId)
                      THEN [run EXCEPT !.pc = "fetchResults"]
                      ELSE [run EXCEPT !.pc = "updateStatusEnd",
                                       !.statusCalls = run.statusCalls + 1],
              messages |-> Append(shown, Displayed(data, r)),
              isRunning |-> FALSE]
        ELSE [run |-> [run EXCEPT !.pc = "timer"],
              messages |-> Append(shown, Displayed(data, r)),
              isRunning |-> running]

\* lines 562-591: processNextMessage from its start up to its first await
ProcessNextMessage(run, r, shown, running) ==
    IF run.currentIndex >= Len(mockData)
    THEN IF Falsy(run.workflowId)
         THEN [run |-> [run EXCEPT !.pc = "done"], messages |-> shown,
               isRunning |-> FALSE]
         ELSE [run |-> [run EXCEPT !.pc = "updateStatusExhausted",
                                   !.statusCalls = run.statusCalls + 1],
               messages |-> shown, isRunning |-> running]
    ELSE LET next == [run EXCEPT !.currentIndex = run.currentIndex + 1]
         IN  IF Falsy(run.workflowId)
             THEN AfterAddMessage(next, r, shown, running)
             ELSE [run |-> [next EXCEPT !.pc = "addMessage"], messages |-> shown,
                   isRunning |-> running]

\* the Start button, shown while not running: lines 536-547 up to the await
StartWorkflow ==
    /\ ~isRunning
    /\ Len(runs) < MaxRuns
    /\ isRunning' = TRUE
    /\ messages' = <<>>
    /\ runs' = Append(runs, NewRun)
    /\ UNCHANGED <<storeVars, parseVars, mockData, viewVars, callVars>>

\* lines 544-555: createWorkflow resolves, /workflow.json is requested
CreateResolves ==
    \E r \in 1..Len(runs) :
    /\ runs[r].pc = "createWorkflow"
    /\ \E remote \in RemoteOutcomes, generated \in GeneratedIds, remoteId \in RemoteIds :
          LET c == CreateWorkflow(localStorage, storageFull, remote, remoteId,
                                  StartFields, generated)
          IN  /\ localStorage' = c.ls
              /\ runs' = [runs EXCEPT ![r].workflowId = c.workflowId,
                                      ![r].pc = "fetchMock"]
    /\ UNCHANGED <<storageFull, last, parseVars, isRunning, messages, mockData, viewVars, callVars>>

\* lines 556-559 and 696: the file arrives, processNextMessage is called
MockArrives ==
    \E r \in 1..Len(runs) :
    /\ runs[r].pc = "fetchMock"
    /\ LET p == ProcessNextMessage(runs[r], r, messages, isRunning)
       IN  /\ runs' = [runs EXCEPT ![r] = p.run]
           /\ messages' = p.messages
           /\ isRunning' = p.isRunning
    /\ UNCHANGED <<storeVars, parseVars, mockData, viewVars, callVars>>

\* lines 698-707: the file cannot be loaded
MockFails ==
    \E r \in 1..Len(runs) :
    /\ runs[r].pc = "fetchMock"
    /\ runs' = [runs EXCEPT ![r].pc = "failed"]
    /\ isRunning' = FALSE
    /\ messages' = <<[type |-> "error", content |-> "failed to load", run |-> r]>>
    /\ UNCHANGED <<storeVars, parseVars, mockData, viewVars, callVars>>

\* lines 584-692: addMessage resolves, the message is displayed
AddMessageResolves ==
    \E r \in 1..Len(runs) :
    /\ runs[r].pc = "addMessage"
    /\ \E remote \in RemoteOutcomes :
          localStorage' = AddMessage(localStorage, storageFull, remote, runs[r].workflowId,
                                     ReplayMessage(mockData[runs[r].currentIndex])).ls
    /\ LET p == AfterAddMessage(runs[r], r, messages, isRunning)
       IN  /\ runs' = [runs EXCEPT ![r] = p.run]
           /\ messages' = p.messages
           /\ isRunning' = p.isRunning
    /\ UNCHANGED <<storageFull, last, parseVars, mockData, viewVars, callVars>>

\* line 692: the timer set by the previous message fires
TimerFires ==
    \E r \in 1..Len(runs) :
    /\ runs[r].pc = "timer"
    /\ LET p == ProcessNextMessage(runs[r], r, messages, isRunning)
       IN  /\ runs' = [runs EXCEPT ![r] = p.run]
           /\ messages' = p.messages
           /\ isRunning' = p.isRunning
    /\ UNCHANGED <<storeVars, parseVars, mockData, viewVars, callVars>>

\* lines 568-574 and 610-615: updateWorkflowStatus(workflowId, 'completed') resolves
UpdateStatusResolves ==
    \E r \in 1..Len(runs) :
    /\ runs[r].pc \in {"updateStatusExhausted", "updateStatusEnd"}
    /\ \E remote \in RemoteOutcomes :
          localStorage' = UpdateWorkflowStatus(localStorage, storageFull, remote,
                                               runs[r].workflowId, "completed").ls
    /\ runs' = [runs EXCEPT ![r].pc = IF runs[r].pc = "updateStatusEnd"
                                      THEN "fetchResults" ELSE "done"]
    /\ isRunning' = IF runs[r].pc = "updateStatusEnd" THEN isRunning ELSE FALSE
    /\ UNCHANGED <<storageFull, last, parseVars, messages, mockData, viewVars, callVars>>

\* lines 615-628: the final output is loaded or not, onComplete is called
ResultsResolve ==
    \E r \in 1..Len(runs) :
    /\ runs[r].pc = "fetchResults"
    /\ runs' = [runs EXCEPT ![r].pc = "done", ![r].onComplete = runs[r].onComplete + 1]
    /\ UNCHANGED <<storeVars, parseVars, isRunning, messages, mockData, viewVars, callVars>>

\* the Stop button, shown while running: eventSourceRef.current is never set
StopWorkflow ==
    /\ isRunning
    /\ isRunning' = FALSE
    /\ UNCHANGED <<storeVars, parseVars, messages, runs, mockData, viewVars, callVars>>

\* the Reset button, shown while not running
ResetWorkflow ==
    /\ ~isRunning
    /\ messages' = <<>>
    /\ isRunning' = FALSE
    /\ UNCHANGED <<storeVars, parseVars, runs, mockData, viewVars, callVars>>

InitReplayRun ==
    /\ InitStore
    /\ InitView
    /\ InitParser
    /\ isRunning = FALSE
    /\ messages = <<>>
    /\ runs = <<>>
    /\ mockData \in MockLists(MaxMock)

NextReplay ==
    \/ StartWorkflow
    \/ StopWorkflow
    \/ ResetWorkflow
    \/ QuotaExceeded
    \/ CreateResolves
    \/ MockArrives
    \/ MockFails
    \/ AddMessageResolves
    \/ TimerFires
    \/ UpdateStatusResolves
    \/ ResultsResolve

SpecReplay == InitReplayRun /\ [][NextReplay]_vars

----------------------------------------------------------------------------
(* Service calls that overlap: a call is issued, its remote request settles *)
(* later, in any order; the catch block then runs without an await.        *)

\* the calls that overlap are about one workflow
OverlapIds == {"workflow-1"}

\* part_002 lines 351-358: addMessage is called, its POST is under way
IssueAddMessage ==
    \E workflowId \in OverlapIds, message \in Messages :
        /\ Cardinality(inFlight) < MaxInFlight
        /\ StoredMessages(GetAllFromLocalStorage(localStorage)) + Cardinality(inFlight)
              < MaxMsgs
        /\ inFlight' = inFlight \cup {[op |-> "addMessage", id |-> workflowId,
                                        message |-> message, status |-> Absent]}
        /\ UNCHANGED <<storeVars, parseVars, replayVars, viewVars>>

\* part_002 lines 393-400: updateWorkflowStatus is called, its PATCH is under way
IssueUpdateWorkflowStatus ==
    \E workflowId \in OverlapIds, status \in {"completed"} :
        /\ Cardinality(inFlight) < MaxInFlight
        /\ inFlight' = inFlight \cup {[op |-> "updateWorkflowStatus", id |-> workflowId,
                                        message |-> EmptyObject, status |-> status]}
        /\ UNCHANGED <<storeVars, parseVars, replayVars, viewVars>>

\* part_002 lines 360-387 and 402-424: the request of one call settles and the
\* rest of the call runs to its return
CallSettles ==
    \E call \in inFlight, remote \in RemoteOutcomes :
        LET r == IF call.op = "addMessage"
                 THEN AddMessage(localStorage, storageFull, remote, call.id, call.message)
                 ELSE UpdateWorkflowStatus(localStorage, storageFull, remote,
                                           call.id, call.status)
        IN  /\ localStorage' = r.ls
            /\ last' = [NoCall EXCEPT !.op = call.op, !.fellBack = (remote # "ok"),
                                      !.id = call.id, !.success = r.success,
                                      !.message = call.message, !.status = call.status,
                                      !.error = r.error, !.rejected = r.rejected]
            /\ inFlight' = inFlight \ {call}
            /\ UNCHANGED <<storageFull, parseVars, replayVars, viewVars>>

NextOverlap ==
    \/ DoCreateWorkflow
    \/ IssueAddMessage
    \/ IssueUpdateWorkflowStatus
    \/ CallSettles
    \/ QuotaExceeded

SpecOverlap == Init /\ [][NextOverlap]_vars

----------------------------------------------------------------------------
(* WorkflowList (part_000 lines 16-76) *)

RemoteLists == {<<>>, <<RemoteRecord("remote-1")>>}

\* fetchWorkflows showing the remote list and the local records together
FetchWorkflows_Merged(ls, remote, remoteWorkflows, demo, demoRecord) ==
    LET all == GetAllWorkflows(ls, remote, remoteWorkflows)
        merged == IF remote = "ok" THEN all.workflows \o GetAllFromLocalStorage(ls)
                  ELSE all.workflows
    IN  IF merged # <<>>
        THEN [workflows |-> merged, error |-> Absent]
        ELSE [workflows |-> IF demo = "ok" THEN <<demoRecord>> ELSE <<>>, error |-> Absent]

\* lines 16-76: what the page shows; demo tells whether /workflow.json loads
FetchWorkflows(ls, remote, remoteWorkflows, demo, demoRecord) ==
    LET all == GetAllWorkflows(ls, remote, remoteWorkflows)
        local == GetAllFromLocalStorage(ls)
        mock == IF demo = "ok" THEN <<demoRecord>> ELSE <<>>
    IN  IF all.rejected
        THEN LET allWorkflows == IF local = <<>> THEN mock ELSE local
             IN  [workflows |-> allWorkflows,
                  error |-> IF allWorkflows = <<>> THEN NoWorkflows ELSE Absent]
        ELSE IF all.workflows # <<>>
        THEN [workflows |-> all.workflows, error |-> Absent]
        ELSE IF local # <<>>
        THEN [workflows |-> local, error |-> Absent]
        ELSE [workflows |-> mock, error |-> Absent]

\* the page is mounted
DoFetchWorkflows ==
    \E remote \in RemoteOutcomes, remoteWorkflows \in RemoteLists,
       demo \in DemoOutcomes, demoRecord \in DemoRecords :
        /\ LET r == FetchWorkflows(localStorage, remote, remoteWorkflows, demo, demoRecord)
           IN  workflowList' = [fetched |-> TRUE, remote |-> remote,
                                remoteWorkflows |-> remoteWorkflows, demo |-> demo,
                                demoRecord |-> demoRecord, workflows |-> r.workflows,
                                error |-> r.error]
        /\ UNCHANGED <<storeVars, parseVars, replayVars, detail, callVars>>

NextList ==
    \/ DoCreateWorkflow
    \/ DoFetchWorkflows

SpecList == Init /\ [][NextList]_vars

----------------------------------------------------------------------------
(* Claims about the workflow store *)

Items == GetAllFromLocalStorage(localStorage)

IsPrefix(s, t) == Len(s) <= Len(t) /\ SubSeq(t, 1, Len(s)) = s

Terminal(w) == Get(w, "status") \in {"completed", "failed"}

\* getWorkflow(id) with the remote backend unreachable, asked in the current state
GetWorkflowNow(workflowId) == GetWorkflow(localStorage, "throw", <<>>, workflowId)

\* C1: createWorkflow returns a non-empty workflowId for every outcome of the
\* remote POST and every state of the local store.
C1_CreateReturnsId ==
    last.op = "createWorkflow" => (last.success /\ ~Falsy(last.id))

\* C2: with the remote unreachable, getWorkflow(id) right after createWorkflow
\* returned id yields a record whose id is id and whose messages are empty, for
\* any initial fields.
C2_GetAfterCreate ==
    (last.op = "createWorkflow" /\ last.fellBack) =>
        LET r == GetWorkflowNow(last.id)
        IN  /\ r.found
            /\ Get(r.workflow, "id") = last.id
            /\ "messages" \in DOMAIN r.workflow
            /\ r.workflow["messages"] = <<>>

\* C3: with the remote unreachable, after addMessage(id, m) reported success,
\* getWorkflow(id) returns a record whose last message carries the fields of m
\* and a non-empty timestamp, the one of m when m had one. (Holds while
\* setItem works; addMessage reports success also when the write was dropped.)
C3_AddThenGet ==
    (last.op = "addMessage" /\ last.fellBack /\ last.success) =>
        LET r == GetWorkflowNow(last.id)
            ms == MessagesOf(r.workflow)
            m == ms[Len(ms)]
            given == JsonObject(last.message)
        IN  /\ r.found
            /\ ms # <<>>
            /\ \A k \in DOMAIN given \ {"timestamp"} : Get(m, k) = given[k]
            /\ ~Falsy(Get(m, "timestamp"))
            /\ ~Falsy(Get(given, "timestamp")) => m["timestamp"] = given["timestamp"]

\* C4: once the status of a stored record is completed or failed, no later call
\* changes it.
C4_StatusTerminal ==
    [][\A i \in 1..Len(Items) :
          Terminal(Items[i]) => Get(Items'[i], "status") = Get(Items[i], "status")]_vars

\* C5: the messages of every stored record only grow at the end: across every
\* step the earlier sequence is a prefix of the later one, and no record leaves
\* the store.
C5_AppendOnly ==
    [][/\ Len(Items) <= Len(Items')
       /\ \A i \in 1..Len(Items) :
             IsPrefix(MessagesOf(Items[i]), MessagesOf(Items'[i]))]_vars

C5_Witness ==
    /\ last.op = "addMessage" /\ last.fellBack /\ last.success
    /\ Len(MessagesOf(GetFromLocalStorage(localStorage, last.id))) = 2

\* C6: a stored record whose status is completed or failed keeps its messages,
\* status and completedAt under every later call.
C6_TerminalImmutable ==
    [][\A i \in 1..Len(Items) :
          Terminal(Items[i]) =>
              /\ MessagesOf(Items'[i]) = MessagesOf(Items[i])
              /\ Get(Items'[i], "status") = Get(Items[i], "status")
              /\ Get(Items'[i], "completedAt") = Get(Items[i], "completedAt")]_vars

----------------------------------------------------------------------------
(* Claims about the section extractor *)

\* a section field as the data model wants it: an integer from 1 to 8
IntegerSection(v) == IsNum(v) /\ v.num \in {10 * i : i \in 1..8}

\* a fenced block (fence, optional json tag, body, fence) whose body, after
\* any text before its first brace, is a JSON object with such a section
HasWellFormedBlock(lines) ==
    \E open \in 1..Len(lines), close \in 1..Len(lines) :
        /\ close >= open + 2
        /\ IsOpenFence(lines[open])
        /\ StartsFence(lines[close])
        /\ \A i \in (open + 1)..(close - 1) : ~StartsFence(lines[i])
        /\ LET parsed == ParseBlock(SubSeq(lines, open + 1, close - 1))
           IN  parsed.ok /\ IntegerSection(parsed.value.sec)

\* C7: a fetched transcript without any well-formed section block resolves
\* with all eight slots null.
C7_NoBlockAllAbsent ==
    (parsePc = "resolved" /\ ~HasWellFormedBlock(txtContent)) =>
        \A i \in 1..8 : parseResult.sections[Slot(i)] = NullValue

\* C8: when the section 1 candidate holds the sentinel OUTPUT STRUCTURE,
\* section 1 is null in the result, also when the candidate is valid JSON with
\* section 1.
C8_SentinelSkipped ==
    (/\ parsePc = "resolved"
     /\ Section1Match(txtContent).matched
     /\ IncludesSentinel(Section1Match(txtContent).body)) =>
        parseResult.sections[Slot(1)] = NullValue

C8_Witness ==
    /\ parsePc = "resolved"
    /\ Section1Match(txtContent).body = <<Json(One, "a", TRUE)>>
    /\ parseResult.sections[Slot(1)] = NullValue

\* C9: for n in 2..8, slot n holds the first block in document order that
\* parses and carries section n, and is null when there is none.
C9_FirstBlockWins ==
    parsePc = "resolved" =>
        \A n \in 2..8 :
            LET blocks == AllJsonBlocks(txtContent, 1)
                carriers == {i \in 1..Len(blocks) :
                                /\ ParseBlock(blocks[i]).ok
                                /\ ParseBlock(blocks[i]).value.sec = NumV(10 * n)}
                first == CHOOSE i \in carriers : \A j \in carriers : i <= j
            IN  parseResult.sections[Slot(n)] =
                    IF carriers = {} THEN NullValue ELSE ParseBlock(blocks[first]).value

\* C10: the result has exactly the eight keys section1..section8.
C10_EightKeys ==
    parsePc = "resolved" => DOMAIN parseResult.sections = SlotKeys

----------------------------------------------------------------------------
(* Claims about the cache of the extractor *)

BrokenEdition == <<Line("fj"), Line("broken"), Line("f")>>

NewCall == Len(calls') > Len(calls)
Newest == calls'[Len(calls')]

C12_CachedForGood ==
    [][/\ (NewCall /\ cachedData.has) =>
             (Newest.pc = "resolved" /\ Newest.fetch = "none")
       /\ \A c, d \in 1..Len(calls') :
             (calls'[c].fetch = "none" /\ calls'[d].fetch = "none") =>
                 calls'[c].allData = calls'[d].allData]_vars

\* C13: the cache can be cleared, so that a call made after the transcript
\* was replaced returns the Section Document of the new transcript. The module
\* exports parseAnalystDataFile and getSectionData only, so the refresh is
\* stated over them: a call answered at once is answered with the extraction
\* of the file as it is now.
C13_RefreshYieldsNew ==
    [][(NewCall /\ Newest.pc = "resolved") =>
           Newest.allData.sections = Extract(txtContent)]_vars

----------------------------------------------------------------------------
(* Claims about the tolerance of the extractor *)

\* the section 1 candidate as the design describes it: the first fenced
\* block, with or without the json tag, that follows the first agent tag
Candidate1(lines) ==
    LET tag == FirstFrom(lines, 1, Tags)
        open == IF tag = 0 THEN 0 ELSE FirstFrom(lines, tag + 1, OpenFences)
        close == IF open = 0 THEN 0 ELSE CloseOf(lines, open)
    IN  IF close = 0
        THEN [matched |-> FALSE, body |-> <<>>]
        ELSE [matched |-> TRUE, body |-> SubSeq(lines, open + 1, close - 1)]

\* the body, after any header text, is a JSON object with the integer section n
Carries(body, n) ==
    ParseBlock(body).ok /\ ParseBlock(body).value.sec = NumV(10 * n)

\* C14: a well-formed payload is recovered for every section 1..8, with or
\* without the json tag on its fence and with or without header text before
\* the opening brace.
C14_TagAndHeaderTolerated ==
    parsePc = "resolved" =>
        /\ \A n \in 2..8 :
              (\E i \in 1..Len(AllJsonBlocks(txtContent, 1)) :
                  Carries(AllJsonBlocks(txtContent, 1)[i], n)) =>
                     /\ parseResult.sections[Slot(n)] # NullValue
                     /\ parseResult.sections[Slot(n)].sec = NumV(10 * n)
        /\ LET c == Candidate1(txtContent)
           IN  (c.matched /\ Carries(c.body, 1) /\ ~IncludesSentinel(c.body)) =>
                   parseResult.sections[Slot(1)] = ParseBlock(c.body).value

\* the transcript with every fenced block taken out whose body has no brace
\* or does not parse
RECURSIVE WithoutBadBlocks(_, _)
WithoutBadBlocks(lines, from) ==
    LET open == FirstFrom(lines, from, OpenFences)
        close == IF open = 0 THEN 0 ELSE CloseOf(lines, open)
    IN  IF close = 0 THEN SubSeq(lines, from, Len(lines))
        ELSE SubSeq(lines, from, open - 1)
             \o (IF ParseBlock(SubSeq(lines, open + 1, close - 1)).ok
                 THEN SubSeq(lines, open, close) ELSE <<>>)
             \o WithoutBadBlocks(lines, close + 1)

\* C15: slots 2..8 of the result are those of the same transcript without its
\* unparseable and brace-less blocks.
C15_BadBlocksSkipped ==
    parsePc = "resolved" =>
        \A n \in 2..8 :
            parseResult.sections[Slot(n)] =
                Extract(WithoutBadBlocks(txtContent, 1))[Slot(n)]

C15_Witness ==
    /\ parsePc = "resolved"
    /\ txtContent = <<Line("fj"), Line("broken"), Line("f"),
                      Line("f"), Json(Three, "a", FALSE), Line("f")>>
    /\ parseResult.sections[Slot(3)] = Json(Three, "a", FALSE)

\* C16: section 1 comes only from the first json fence after the first agent
\* tag: when that candidate holds the sentinel, does not parse or has another
\* section, section 1 is null, no later block fills it, and slots 2..8 are
\* what the scan of all blocks gives on its own.
C16_OnlyTheCandidate ==
    parsePc = "resolved" =>
        LET m == Section1Match(txtContent)
            parsed == JsonParse(m.body)
            good == /\ m.matched
                    /\ ~IncludesSentinel(m.body)
                    /\ parsed.ok
                    /\ parsed.value.sec = One
            scanned == ExtractBlocks(AllJsonBlocks(txtContent, 1), EmptySections)
        IN  /\ parseResult.sections[Slot(1)] =
                   IF good THEN parsed.value ELSE NullValue
            /\ \A n \in 2..8 : parseResult.sections[Slot(n)] = scanned[Slot(n)]

C16_Witness ==
    /\ parsePc = "resolved"
    /\ txtContent = <<Line("tag"), Line("prose"), Line("fj"), Json(Three, "a", FALSE),
                      Line("f"),
                      Line("fj"), Json(One, "a", FALSE), Line("f")>>
    /\ parseResult.sections[Slot(1)] = NullValue
    /\ parseResult.sections[Slot(3)] = Json(Three, "a", FALSE)

----------------------------------------------------------------------------
(* Claims about the fallback of the service *)

\* C17: addMessage and updateWorkflowStatus report failure, with the error
\* Workflow not found, exactly when the remote call failed and the local store
\* holds no record with that id; with the record there, a failed remote call
\* ends in success.
C17_NotFoundExactly ==
    [][(storageFull' = storageFull
        /\ last'.op \in {"addMessage", "updateWorkflowStatus"}) =>
           /\ last'.success = ~(last'.fellBack /\ ~Found(localStorage, last'.id))
           /\ last'.error = IF last'.success THEN Absent ELSE NotFound]_vars

C17_Witness ==
    /\ last.op = "updateWorkflowStatus"
    /\ last.fellBack
    /\ ~last.success
    /\ last.error = NotFound
    /\ Len(Items) = 1
    /\ storageFull

\* C18: updateWorkflowStatus(id, s) on the fallback path changes nothing but
\* status and completedAt of the record with that id: its other fields, every
\* other record and the order of the records stay; when the remote call
\* succeeds the local store is left alone.
C18_StatusFrame ==
    [][(storageFull' = storageFull /\ last'.op = "updateWorkflowStatus") =>
           LET target == FindIndex(Items, last'.id)
           IN  /\ ~last'.fellBack => localStorage' = localStorage
               /\ Len(Items') = Len(Items)
               /\ \A i \in 1..Len(Items) :
                     IF i = target
                     THEN /\ DOMAIN Items'[i] \subseteq
                                 DOMAIN Items[i] \cup {"status", "completedAt"}
                          /\ \A k \in DOMAIN Items[i] \ {"status", "completedAt"} :
                                 Get(Items'[i], k) = Items[i][k]
                     ELSE Items'[i] = Items[i]]_vars

C18_Witness ==
    /\ last.op = "updateWorkflowStatus"
    /\ last.fellBack
    /\ last.success
    /\ Len(Items) = 2
    /\ Get(Items[1], "id") = last.id
    /\ Get(Items[1], "status") = "completed"
    /\ Get(Items[1], "completedAt") = Now
    /\ Get(Items[2], "status") = "failed"
    /\ Get(Items[2], "completedAt") = Absent

C20_RemoteErrorsDegrade ==
    [][storageFull' = storageFull =>
          /\ ~last'.rejected
          /\ last'.fellBack =>
                /\ last'.op = "createWorkflow" =>
                      IF storageFull THEN localStorage' = localStorage
                      ELSE /\ Len(Items') = Len(Items) + 1
                           /\ SubSeq(Items', 1, Len(Items)) = Items
                           /\ Get(Items'[Len(Items')], "createdAt") = Now
                /\ last'.op \in {"addMessage", "updateWorkflowStatus"} =>
                      last'.success = Found(localStorage, last'.id)
                /\ last'.op = "getWorkflow" =>
                      last'.returned = IF Found(localStorage, last'.id)
                                       THEN <<GetFromLocalStorage(localStorage, last'.id)>>
                                       ELSE <<>>
                /\ last'.op = "getAllWorkflows" => last'.returned = Items]_vars

C20_Witness ==
    /\ last.op = "getAllWorkflows"
    /\ last.fellBack
    /\ ~last.rejected
    /\ Len(last.returned) = 2
    /\ last.returned = Items

----------------------------------------------------------------------------
(* Claims about failures of the local store *)

\* a step that is a call of the service, not a change of the environment
ServiceCall ==
    /\ storageFull' = storageFull
    /\ ~(localStorage'.corrupt /\ ~localStorage.corrupt)

----------------------------------------------------------------------------
(* Claims about the replay *)

RECURSIVE IsSubsequence(_, _)
IsSubsequence(s, t) ==
    IF s = <<>> THEN TRUE
    ELSE IF t = <<>> THEN FALSE
    ELSE IF Head(s) = Head(t) THEN IsSubsequence(Tail(s), Tail(t))
    ELSE IsSubsequence(s, Tail(t))

\* the source messages up to index n as addMessage stores them
RECURSIVE SentUpTo(_)
SentUpTo(n) ==
    IF n = 0 THEN <<>>
    ELSE Append(SentUpTo(n - 1), JsonObject(StampedMessage(ReplayMessage(mockData[n]))))

\* the run has a record of its own in the local store
OwnRecord(r) ==
    /\ ~Falsy(runs[r].workflowId)
    /\ Found(localStorage, runs[r].workflowId)
    /\ \A q \in 1..Len(runs) : q # r => runs[q].workflowId # runs[r].workflowId

\* C22: the messages stored for the workflow of a run are in the order of the
\* source list: the stored sequence is an order-preserving subsequence of the
\* source messages the run has reached.
C22_StoredInSourceOrder ==
    \A r \in 1..Len(runs) :
        OwnRecord(r) =>
            IsSubsequence(MessagesOf(GetFromLocalStorage(localStorage, runs[r].workflowId)),
                          SentUpTo(runs[r].currentIndex))

C22_Witness ==
    \E r \in 1..Len(runs) :
        /\ OwnRecord(r)
        /\ Len(mockData) = 2
        /\ mockData[1] # mockData[2]
        /\ MessagesOf(GetFromLocalStorage(localStorage, runs[r].workflowId)) = SentUpTo(2)

\* the run still has a message to add or a timer to fire
InChain(run) == run.pc \in {"createWorkflow", "fetchMock", "addMessage", "timer"}

\* C23: once stopWorkflow has set isRunning to false during a run, no further
\* message is appended to a workflow record or to the displayed list, and no
\* status update is issued by a run that was still in its chain.
C23_StopSevers ==
    [][~isRunning =>
          /\ \A k \in 1..Len(messages') :
                k > Len(messages) => messages'[k].type = "error"
          /\ \A i \in 1..Len(Items) :
                i <= Len(Items') =>
                    Len(MessagesOf(Items'[i])) <= Len(MessagesOf(Items[i]))
          /\ \A r \in 1..Len(runs) :
                InChain(runs[r]) =>
                    runs'[r].pc \notin {"updateStatusExhausted", "updateStatusEnd"}]_vars

----------------------------------------------------------------------------
(* Claims about overlapping calls and the list page *)

\* C24: for calls that overlap and whose remote requests fail in any order,
\* every message appended and every status written by a call that reported
\* success is in the local record when the call returns, and no later call
\* removes a message (no lost update).
C24_NoLostUpdate ==
    [][/\ \A i \in 1..Len(Items) :
             i <= Len(Items') => IsPrefix(MessagesOf(Items[i]), MessagesOf(Items'[i]))
       /\ (inFlight' # inFlight /\ inFlight' \subseteq inFlight /\ last'.fellBack /\ last'.success) =>
             LET w == GetFromLocalStorage(localStorage', last'.id)
                 ms == MessagesOf(w)
             IN  /\ Found(localStorage', last'.id)
                 /\ last'.op = "addMessage" =>
                       /\ ms # <<>>
                       /\ ms[Len(ms)] = JsonObject(StampedMessage(last'.message))
                 /\ last'.op = "updateWorkflowStatus" =>
                       Get(w, "status") = last'.status]_vars

\* C25: the list page shows exactly one tier: the remote list when it is not
\* empty, else the records of the local store when there are any, else the one
\* demo record when it loads; 'No workflows found' is reported only when all
\* three yield nothing.
C25_OneTier ==
    [][workflowList' # workflowList =>
          LET v == workflowList'
              remoteList == IF v.remote = "ok" THEN v.remoteWorkflows ELSE <<>>
              local == GetAllFromLocalStorage(localStorage)
              demoList == IF v.demo = "ok" THEN <<v.demoRecord>> ELSE <<>>
          IN  /\ v.workflows = IF remoteList # <<>> THEN remoteList
                               ELSE IF local # <<>> THEN local
                               ELSE demoList
              /\ v.error = NoWorkflows =>
                    (remoteList = <<>> /\ local = <<>> /\ demoList = <<>>)]_vars

C25_Witness ==
    /\ workflowList.fetched
    /\ workflowList.remote = "ok"
    /\ workflowList.remoteWorkflows = <<>>
    /\ localStorage = EmptyStorage
    /\ workflowList.workflows = <<workflowList.demoRecord>>

\* C26: the record that startWorkflow creates has the status in_progress and
\* keeps it until the run has ended and updated it to completed.
C26_InProgressUntilCompleted ==
    \A r \in 1..Len(runs) :
        (OwnRecord(r) /\ runs[r].pc \in {"fetchMock", "addMessage", "timer"}) =>
            Get(GetFromLocalStorage(localStorage, runs[r].workflowId), "status") = "in_progress"

\* C27: after any sequence of createWorkflow calls on the fallback path, with
\* any initial fields, no two records of the local store have the same id and
\* the id of each record equals its workflowId.
C27_IdsUnique ==
    /\ \A i, j \in 1..Len(Items) :
          i # j => Get(Items[i], "id") # Get(Items[j], "id")
    /\ \A i \in 1..Len(Items) : Get(Items[i], "id") = Get(Items[i], "workflowId")

\* the run has processed its terminating message or found the list exhausted
Ended(run) == run.pc \in {"updateStatusExhausted", "updateStatusEnd", "fetchResults", "done"}

\* the messages of run r in the displayed list
ShownBy(shown, r) == Cardinality({k \in 1..Len(shown) : shown[k].run = r})

\* C28: a replay run ends at the first message of type end or complete or when
\* the list is exhausted; in both cases updateWorkflowStatus(id, 'completed')
\* is issued exactly once, isRunning becomes false, no message after the
\* terminating one is appended and onComplete is invoked at most once.
C28_RunEnds ==
    [][\A r \in 1..Len(runs) :
          /\ (Ended(runs'[r]) /\ ~Ended(runs[r])) =>
                \/ runs'[r].currentIndex = Len(mockData)
                \/ EndsStream(mockData[runs'[r].currentIndex])
          /\ (~Ended(runs'[r]) /\ runs'[r].currentIndex > 0) =>
                ~EndsStream(mockData[runs'[r].currentIndex])
                    \/ runs'[r].pc \in {"addMessage"}
          /\ Ended(runs'[r]) => runs'[r].statusCalls = 1
          /\ (runs'[r].pc \in {"updateStatusEnd", "fetchResults"} /\ ~Ended(runs[r])) =>
                ~isRunning'
          /\ (runs'[r].pc = "done" /\ runs[r].pc # "fetchResults" /\ runs[r].pc # "done") =>
                ~isRunning'
          /\ Ended(runs[r]) =>
                /\ runs'[r].currentIndex = runs[r].currentIndex
                /\ ShownBy(messages', r) <= ShownBy(messages, r)
          /\ runs'[r].onComplete <= 1]_vars

\* C29: at most one replay chain is active at any time: no two runs have a
\* message to add or a timer pending together, and the displayed list never
\* holds messages of two runs.
C29_OneChain ==
    /\ \A r, q \in 1..Len(runs) : (InChain(runs[r]) /\ InChain(runs[q])) => r = q
    /\ \A j, k \in 1..Len(messages) : messages[j].run = messages[k].run

----------------------------------------------------------------------------
(* Claims about loads of the extractor that overlap *)

\* C30: calls that start before any call has completed each fetch and parse
\* the transcript themselves, each returns the Section Document it extracted,
\* and the cache holds the document of the call that completed last.
C30_InFlightNotMemoized ==
    [][/\ (NewCall /\ ~cachedData.has) => Newest.fetch = "pending"
       /\ \A c \in 1..Len(calls) :
             calls[c].fetch = "pending" => calls'[c].fetch # "none"
       /\ \A c \in 1..Len(calls) :
             (calls[c].pc = "fetching" /\ calls'[c].pc = "resolved") =>
                 /\ calls'[c].fetch = "ok"
                 /\ calls'[c].allData = [has |-> TRUE, sections |-> Extract(txtContent)]
                 /\ cachedData' = calls'[c].allData]_vars

C30_Witness ==
    /\ Len(calls) >= 2
    /\ calls[1].pc = "resolved" /\ calls[1].fetch = "ok"
    /\ calls[2].pc = "resolved" /\ calls[2].fetch = "ok"
    /\ calls[1].allData # calls[2].allData
    /\ cachedData = calls[1].allData

====
